---------------------------- MODULE Spec2Model ----------------------------
(***************************************************************************)
(* Model of backup.py: the Zabbix configuration export tool.               *)
(*                                                                         *)
(* Text (file names, XML, JSON, YAML) is a sequence of atoms.  An atom is  *)
(* a string standing for one lexical unit: a single significant character  *)
(* ("/", ":", "\n"), a tag ("<date>"), or a run of ordinary characters     *)
(* ("Host").  Python values are tagged records [t, v].                     *)
(***************************************************************************)
EXTENDS Integers, Sequences, FiniteSets, TLC

VARIABLES
    pc,         \* position of the single thread of control
    handle,     \* what get_zabbix_connection returned ("none" before/without)
    attempts,   \* connection attempts made so far, in order
    log,        \* exceptions given to logging.exception, in order
    raised,     \* the exception that left the program ("none" while running)
    save_yaml,  \* args.save_yaml
    cat,        \* index in Categories of the category being processed
    items,      \* the listing being iterated (export: items, dumps_json: data)
    idx,        \* index in items of the next item
    served,     \* number of items the server has listed so far
    dirs,       \* directories that exist, as paths relative to the cwd
    files,      \* files that exist: path -> text
    events,     \* history: API requests, makedirs and file writes, in order
    call        \* unit harness: the serializer call under test and its result

vars == <<pc, handle, attempts, log, raised, save_yaml, cat, items, idx,
          served, dirs, files, events, call>>

(***************************************************************************)
(* Bounds of the model.                                                    *)
(***************************************************************************)
MaxItems == 2     \* items the server lists in total during one run
MaxNameLen == 3   \* atoms in a display name given to the serializer directly
MaxDocLen == 5    \* atoms in a markup document given to dump_xml directly
MaxNodes == 4     \* nodes (scalars and containers) of an item given to dumps_json
MaxPyNodes == 3   \* nodes of an object given to remove_none directly

(***************************************************************************)
(* Generic helpers.                                                        *)
(***************************************************************************)
Last(s) == s[Len(s)]
Front(s) == SubSeq(s, 1, Len(s) - 1)

RECURSIVE Flatten(_)
Flatten(ss) == IF ss = <<>> THEN <<>> ELSE Head(ss) \o Flatten(Tail(ss))

RECURSIVE Repeat(_, _)
Repeat(a, n) == IF n <= 0 THEN <<>> ELSE <<a>> \o Repeat(a, n - 1)

SeqsUpTo(S, n) == UNION {[1..k -> S] : k \in 0..n}

Occurs(a, s) == \E i \in 1..Len(s) : s[i] = a

(***************************************************************************)
(* Python values.                                                          *)
(***************************************************************************)
None == [t |-> "null", v |-> <<>>]
Str(chars) == [t |-> "str", v |-> chars]
List(elems) == [t |-> "list", v |-> elems]
Tuple(elems) == [t |-> "tuple", v |-> elems]
PySet(elems) == [t |-> "set", v |-> elems]
Dict(pairs) == [t |-> "dict", v |-> pairs]     \* pairs in insertion order

HasKey(d, k) == \E i \in 1..Len(d.v) : d.v[i][1] = k
GetKey(d, k) == d.v[CHOOSE i \in 1..Len(d.v) : d.v[i][1] = k][2]

(***************************************************************************)
(* File names: re.sub(r'[\\/:"*?<>|]+', ' ', name), the format string and  *)
(* os.path.abspath.                                                        *)
(***************************************************************************)
ForbiddenChars == {"\\", "/", ":", "\"", "*", "?", "<", ">", "|"}

RECURSIVE SkipForbidden(_)
\* the greedy + of the character class: the rest of the subject after the run
SkipForbidden(s) ==
    IF s # <<>> /\ Head(s) \in ForbiddenChars THEN SkipForbidden(Tail(s)) ELSE s

\* a different pattern, [...] without '+': one space for each character
RECURSIVE ReSubNoCollapse(_)
ReSubNoCollapse(s) ==
    IF s = <<>> THEN <<>>
    ELSE IF Head(s) \in ForbiddenChars THEN <<" ">> \o ReSubNoCollapse(Tail(s))
    ELSE <<Head(s)>> \o ReSubNoCollapse(Tail(s))

\* a different pattern, the character class without '/'
RECURSIVE ReSubKeepSlash(_)
ReSubKeepSlash(s) ==
    IF s = <<>> THEN <<>>
    ELSE IF Head(s) \in ForbiddenChars \ {"/"}
         THEN <<" ">> \o ReSubKeepSlash(Tail(s))
    ELSE <<Head(s)>> \o ReSubKeepSlash(Tail(s))

RECURSIVE ReSubForbidden(_)
\* re.sub: scan left to right, each match (a maximal run) becomes one space
ReSubForbidden(s) ==
    IF s = <<>> THEN <<>>
    ELSE IF Head(s) \in ForbiddenChars
         THEN <<" ">> \o ReSubForbidden(SkipForbidden(Tail(s)))
    ELSE <<Head(s)>> \o ReSubForbidden(Tail(s))

\* dumps_json: 'yaml' if save_yaml else 'json';  dump_xml: ... else 'xml'
JsonExt(yaml) == IF yaml THEN "yaml" ELSE "json"
XmlExt(yaml) == IF yaml THEN "yaml" ELSE "xml"

\* '{}/{}.{}'.format(folder, name, ext)
FormatFilename(folder, name, ext) == <<folder, "/">> \o name \o <<".", ext>>

RECURSIVE SplitPath(_, _)
\* the components of a path text, split at "/" (cur: the component so far)
SplitPath(s, cur) ==
    IF s = <<>> THEN <<cur>>
    ELSE IF Head(s) = "/" THEN <<cur>> \o SplitPath(Tail(s), <<>>)
    ELSE SplitPath(Tail(s), Append(cur, Head(s)))

RECURSIVE NormPath(_, _)
\* os.path.normpath on components, relative to the cwd (acc: result so far);
\* a leading ".." that cannot be resolved is kept: the path leaves the cwd
NormPath(comps, acc) ==
    IF comps = <<>> THEN acc
    ELSE LET c == Head(comps) IN
         IF c = <<>> \/ c = <<".">> THEN NormPath(Tail(comps), acc)
         ELSE IF c = <<".", ".">>
              THEN IF acc # <<>> /\ Last(acc) # <<".", ".">>
                   THEN NormPath(Tail(comps), Front(acc))
                   ELSE NormPath(Tail(comps), Append(acc, c))
         ELSE NormPath(Tail(comps), Append(acc, c))

\* os.path.abspath(filename), as the components below the cwd
AbsPath(filename) == NormPath(SplitPath(filename, <<>>), <<>>)

DumpsJsonFilename(folder, name, yaml) ==
    AbsPath(FormatFilename(folder, ReSubForbidden(name), JsonExt(yaml)))

DumpXmlFilename(folder, name, yaml) ==
    AbsPath(FormatFilename(folder, ReSubForbidden(name), XmlExt(yaml)))

(***************************************************************************)
(* The file system.                                                        *)
(***************************************************************************)
DirExists(d, ds) == d \in ds \/ \A i \in 1..Len(d) : d[i] = <<".", ".">>

\* a writer without the os.makedirs call
MakeNoDirs(folder, ds) == ds

\* if not os.path.exists(folder): os.makedirs(folder)
MakeDirs(folder, ds) == ds \cup {<<<<folder>>>>}

\* a writer that opens with mode="a": the text is added to what the file holds
WriteAppend(fs, path, txt) ==
    [p \in DOMAIN fs \cup {path} |->
        IF p = path THEN (IF path \in DOMAIN fs THEN fs[path] ELSE <<>>) \o txt
        ELSE fs[p]]

\* open(filename, mode="w") ... file.write(txt): creates or truncates
WriteFile(fs, path, txt) ==
    [p \in DOMAIN fs \cup {path} |-> IF p = path THEN txt ELSE fs[p]]

\* the error open() raises, "none" when it succeeds
OpenError(path, ds, fs) ==
    IF path = <<>> \/ ~DirExists(Front(path), ds) THEN "FileNotFoundError"
    ELSE "none"

(***************************************************************************)
(* Markup text.  Atoms: XmlDecl, "<tag>", "</tag>", "<tag/>", white space  *)
(* ("\n", " ", "  "), the entity "&quot;", and character data.             *)
(***************************************************************************)
XmlTags == {"zabbix_export", "version", "date", "item", "id", "b",
            "hosts", "templates", "valueMaps", "screens"}
XmlDecl == "<?xml version=\"1.0\" encoding=\"UTF-8\"?>"
OpenTag(t) == "<" \o t \o ">"
CloseTag(t) == "</" \o t \o ">"
EmptyTag(t) == "<" \o t \o "/>"
OpenTags == {OpenTag(t) : t \in XmlTags}
CloseTags == {CloseTag(t) : t \in XmlTags}
EmptyTags == {EmptyTag(t) : t \in XmlTags}
IsOpenTag(a) == a \in OpenTags
IsCloseTag(a) == a \in CloseTags
IsEmptyTag(a) == a \in EmptyTags
TagNames == [a \in OpenTags \cup CloseTags \cup EmptyTags |->
               CHOOSE t \in XmlTags : a \in {OpenTag(t), CloseTag(t), EmptyTag(t)}]
TagOf(a) == TagNames[a]
WhiteSpace == {"\n", " ", "  "}

\* position of the last "</date>" that `<date>.*` can reach from position i
\* (the atom after "<date>"): "." matches any atom but a line break
RECURSIVE LastDateClose(_, _, _)
LastDateClose(txt, i, best) ==
    IF i > Len(txt) \/ txt[i] = "\n" THEN best
    ELSE LastDateClose(txt, i + 1, IF txt[i] = "</date>" THEN i ELSE best)

RECURSIVE ReSubDateFrom(_, _)
ReSubDateFrom(txt, i) ==
    IF i > Len(txt) THEN <<>>
    ELSE LET j == IF txt[i] = "<date>" THEN LastDateClose(txt, i + 1, 0) ELSE 0
         IN IF j > 0 THEN ReSubDateFrom(txt, j + 1)
            ELSE <<txt[i]>> \o ReSubDateFrom(txt, i + 1)

\* txt = re.sub(r'<date>.*<\/date>', '', txt)
ReSubDate(txt) == ReSubDateFrom(txt, 1)

\* xml.dom.minidom nodes
Element(tag, kids) == [k |-> "el", tag |-> tag, kids |-> kids]
Text(data) == [k |-> "text", data |-> data]

\* character data as the parser delivers it: entities resolved
Unescape(a) == IF a = "&quot;" THEN "\"" ELSE a

AddKid(frame, node) == [frame EXCEPT !.kids = Append(@, node)]

AddData(frame, a) ==
    IF frame.kids # <<>> /\ Last(frame.kids).k = "text"
    THEN [frame EXCEPT !.kids[Len(frame.kids)].data = Append(@, Unescape(a))]
    ELSE AddKid(frame, Text(<<Unescape(a)>>))

\* an element is complete: it becomes the root or a child of the open element
CloseElement(st, node) ==
    IF st.stack = <<>> THEN [st EXCEPT !.root = <<node>>]
    ELSE [st EXCEPT !.stack[Len(st.stack)] = AddKid(@, node)]

\* one atom of the document, given to the parser in state st
ParseAtom(st, a, first) ==
    IF ~st.ok THEN st
    ELSE IF a = XmlDecl THEN [st EXCEPT !.ok = first]
    ELSE IF IsOpenTag(a) \/ IsEmptyTag(a)
    THEN IF st.stack = <<>> /\ st.root # <<>>
         THEN [st EXCEPT !.ok = FALSE]       \* junk after document element
         ELSE IF IsEmptyTag(a) THEN CloseElement(st, Element(TagOf(a), <<>>))
         ELSE [st EXCEPT !.stack = Append(@, Element(TagOf(a), <<>>))]
    ELSE IF IsCloseTag(a)
    THEN IF st.stack = <<>> \/ Last(st.stack).tag # TagOf(a)
         THEN [st EXCEPT !.ok = FALSE]       \* mismatched tag
         ELSE CloseElement([st EXCEPT !.stack = Front(@)], Last(st.stack))
    ELSE IF st.stack = <<>>
    THEN [st EXCEPT !.ok = a \in WhiteSpace] \* text outside the root
    ELSE [st EXCEPT !.stack[Len(st.stack)] = AddData(@, a)]

RECURSIVE ParseFrom(_, _, _)
ParseFrom(txt, i, st) ==
    IF i > Len(txt) THEN st
    ELSE ParseFrom(txt, i + 1, ParseAtom(st, txt[i], i = 1))

\* xml.dom.minidom.parseString(txt): [ok, root]; ~ok stands for ExpatError
ParseString(txt) ==
    LET st == ParseFrom(txt, 1, [ok |-> TRUE, stack |-> <<>>, root |-> <<>>])
    IN [ok |-> st.ok /\ st.stack = <<>> /\ st.root # <<>>,
        root |-> IF st.root # <<>> THEN st.root[1] ELSE Element("", <<>>)]

\* toprettyxml(indent='  ')
IndentAtoms(depth) == Repeat("  ", depth)

\* minidom's _write_data: character data escaped on output
WriteData(data) == [i \in 1..Len(data) |->
                       IF data[i] = "\"" THEN "&quot;" ELSE data[i]]

RECURSIVE WriteXml(_, _)
\* Node.writexml(writer, indent, addindent='  ', newl='\n')
WriteXml(node, depth) ==
    IF node.k = "text"
    THEN IndentAtoms(depth) \o WriteData(node.data) \o <<"\n">>
    ELSE IF node.kids = <<>>
    THEN IndentAtoms(depth) \o <<EmptyTag(node.tag), "\n">>
    ELSE IF Len(node.kids) = 1 /\ node.kids[1].k = "text"
    THEN IndentAtoms(depth) \o <<OpenTag(node.tag)>>
         \o WriteData(node.kids[1].data) \o <<CloseTag(node.tag), "\n">>
    ELSE IndentAtoms(depth) \o <<OpenTag(node.tag), "\n">>
         \o Flatten([i \in 1..Len(node.kids) |->
                        WriteXml(node.kids[i], depth + 1)])
         \o IndentAtoms(depth) \o <<CloseTag(node.tag), "\n">>

\* xml_.toprettyxml(indent='  ', encoding='UTF-8'), then txt.decode()
ToPrettyXml(root) == <<XmlDecl, "\n">> \o WriteXml(root, 0)

\* txt.replace('&quot;', '"')
ReplaceQuot(txt) == [i \in 1..Len(txt) |->
                        IF txt[i] = "&quot;" THEN "\"" ELSE txt[i]]

(***************************************************************************)
(* Structured data: remove_none, order_data, json.dumps.                   *)
(***************************************************************************)
\* mapping keys in the order Python's sorted() gives them (code points)
KeyOrder == <<"#text", "a", "actionid", "b", "c", "description", "filter",
              "mediatypeid", "name">>
NoneKey == "None"      \* stands for the Python key None (not a string key)
KeyRank(k) == IF \E i \in 1..Len(KeyOrder) : KeyOrder[i] = k
              THEN CHOOSE i \in 1..Len(KeyOrder) : KeyOrder[i] = k
              ELSE 0

IsNone(obj) == obj.t = "null"

\* remove_none without its recursive calls: the outermost container only
RemoveNoneShallow(obj) ==
    IF obj.t \in {"list", "tuple"}
    THEN [obj EXCEPT !.v = SelectSeq(obj.v, LAMBDA x : ~IsNone(x))]
    ELSE IF obj.t = "set"
    THEN [obj EXCEPT !.v = {x \in obj.v : ~IsNone(x)}]
    ELSE IF obj.t = "dict"
    THEN [obj EXCEPT !.v = SelectSeq(obj.v,
                LAMBDA kv : kv[1] # NoneKey /\ ~IsNone(kv[2]))]
    ELSE obj

\* remove_none(obj), lines 18-31
RECURSIVE remove_none(_)
remove_none(obj) ==
    IF obj.t \in {"list", "tuple"}
    THEN LET kept == SelectSeq(obj.v, LAMBDA x : ~IsNone(x))
         IN [obj EXCEPT !.v = [i \in 1..Len(kept) |-> remove_none(kept[i])]]
    ELSE IF obj.t = "set"
    THEN [obj EXCEPT !.v = {remove_none(x) : x \in {y \in obj.v : ~IsNone(y)}}]
    ELSE IF obj.t = "dict"
    THEN LET kept == SelectSeq(obj.v,
                        LAMBDA kv : kv[1] # NoneKey /\ ~IsNone(kv[2]))
         IN [obj EXCEPT !.v = [i \in 1..Len(kept) |->
                                  <<kept[i][1], remove_none(kept[i][2])>>]]
    ELSE obj

RECURSIVE InsertSorted(_, _)
InsertSorted(kv, sorted) ==
    IF sorted = <<>> THEN <<kv>>
    ELSE IF KeyRank(kv[1]) < KeyRank(Head(sorted)[1]) THEN <<kv>> \o sorted
    ELSE <<Head(sorted)>> \o InsertSorted(kv, Tail(sorted))

RECURSIVE SortedItems(_)
\* sorted(data.items()): the keys of a mapping are distinct, so the pairs are
\* ordered by key alone
SortedItems(pairs) ==
    IF pairs = <<>> THEN <<>>
    ELSE InsertSorted(Head(pairs), SortedItems(Tail(pairs)))

\* order_data without the loop over data.items(): values are not ordered
RECURSIVE OrderDataTopOnly(_)
OrderDataTopOnly(data) ==
    IF data.t = "dict" THEN Dict(SortedItems(data.v))
    ELSE IF data.t = "list"
    THEN List([i \in 1..Len(data.v) |-> OrderDataTopOnly(data.v[i])])
    ELSE data

\* order_data(data), lines 86-94
RECURSIVE order_data(_)
order_data(data) ==
    IF data.t = "dict"
    THEN Dict(SortedItems([i \in 1..Len(data.v) |->
                              <<data.v[i][1], order_data(data.v[i][2])>>]))
    ELSE IF data.t = "list"
    THEN List([i \in 1..Len(data.v) |-> order_data(data.v[i])])
    ELSE data

\* the characters of a string inside a JSON string literal
JsonEscape(chars) == [i \in 1..Len(chars) |->
    IF chars[i] = "\"" THEN "\\\""
    ELSE IF chars[i] = "\\" THEN "\\\\"
    ELSE chars[i]]
JsonUnescape(chars) == [i \in 1..Len(chars) |->
    IF chars[i] = "\\\"" THEN "\""
    ELSE IF chars[i] = "\\\\" THEN "\\"
    ELSE chars[i]]

JsonIndent(depth) == Repeat("    ", depth)      \* indent=4

RECURSIVE JoinLines(_, _)
\* the entries of a container, one per line, separated by ","
JoinLines(entries, depth) ==
    IF entries = <<>> THEN <<>>
    ELSE JsonIndent(depth) \o Head(entries)
         \o (IF Len(entries) > 1 THEN <<",">> ELSE <<>>) \o <<"\n">>
         \o JoinLines(Tail(entries), depth)

RECURSIVE JsonDumps(_, _)
\* json.dumps(item, indent=4) at nesting depth `depth`
JsonDumps(obj, depth) ==
    IF obj.t = "null" THEN <<"null">>
    ELSE IF obj.t = "str" THEN <<"\"">> \o JsonEscape(obj.v) \o <<"\"">>
    ELSE IF obj.t = "list"
    THEN IF obj.v = <<>> THEN <<"[]">>
         ELSE <<"[", "\n">>
              \o JoinLines([i \in 1..Len(obj.v) |->
                               JsonDumps(obj.v[i], depth + 1)], depth + 1)
              \o JsonIndent(depth) \o <<"]">>
    ELSE IF obj.v = <<>> THEN <<"{}">>
         ELSE <<"{", "\n">>
              \o JoinLines([i \in 1..Len(obj.v) |->
                               <<"\"", obj.v[i][1], "\"", ": ">>
                               \o JsonDumps(obj.v[i][2], depth + 1)], depth + 1)
              \o JsonIndent(depth) \o <<"}">>

(***************************************************************************)
(* convert_to_object_without_none: anymarkup.parse (JSON text is read by   *)
(* its YAML back end, XML text by xmltodict), remove_none, yaml.dump.      *)
(* Scalars are opaque: the type recognition anymarkup applies to strings   *)
(* is outside the model.                                                   *)
(***************************************************************************)
RECURSIVE SkipWs(_, _)
SkipWs(txt, i) ==
    IF i <= Len(txt) /\ txt[i] \in {"\n", "    "} THEN SkipWs(txt, i + 1) ELSE i

RECURSIVE ClosingQuote(_, _)
ClosingQuote(txt, i) == IF txt[i] = "\"" THEN i ELSE ClosingQuote(txt, i + 1)

RECURSIVE LoadValue(_, _)
RECURSIVE LoadElements(_, _, _)
RECURSIVE LoadMembers(_, _, _)

\* the value that starts at atom i: [v, next]
LoadValue(txt, i) ==
    LET j == SkipWs(txt, i) IN
    IF txt[j] = "null" THEN [v |-> None, next |-> j + 1]
    ELSE IF txt[j] = "[]" THEN [v |-> List(<<>>), next |-> j + 1]
    ELSE IF txt[j] = "{}" THEN [v |-> Dict(<<>>), next |-> j + 1]
    ELSE IF txt[j] = "[" THEN LoadElements(txt, j + 1, <<>>)
    ELSE IF txt[j] = "{" THEN LoadMembers(txt, j + 1, <<>>)
    ELSE LET e == ClosingQuote(txt, j + 1)
         IN [v |-> Str(JsonUnescape(SubSeq(txt, j + 1, e - 1))), next |-> e + 1]

LoadElements(txt, i, acc) ==
    LET r == LoadValue(txt, i)
        k == SkipWs(txt, r.next)
    IN IF txt[k] = "," THEN LoadElements(txt, k + 1, Append(acc, r.v))
       ELSE [v |-> List(Append(acc, r.v)), next |-> k + 1]

LoadMembers(txt, i, acc) ==
    LET j == SkipWs(txt, i)              \* txt[j] = "\"", then key, "\"", ": "
        r == LoadValue(txt, j + 4)
        k == SkipWs(txt, r.next)
        got == Append(acc, <<txt[j + 1], r.v>>)
    IN IF txt[k] = "," THEN LoadMembers(txt, k + 1, got)
       ELSE [v |-> Dict(got), next |-> k + 1]

\* anymarkup.parse(txt) of JSON text
ParseJsonText(txt) == LoadValue(txt, 1).v

\* xmltodict: character data of an element, white space stripped at both ends
RECURSIVE StripLeft(_)
StripLeft(d) == IF d # <<>> /\ Head(d) \in WhiteSpace THEN StripLeft(Tail(d)) ELSE d
RECURSIVE StripRight(_)
StripRight(d) == IF d # <<>> /\ Last(d) \in WhiteSpace THEN StripRight(Front(d)) ELSE d
CData(el) ==
    LET texts == SelectSeq(el.kids, LAMBDA n : n.k = "text")
    IN StripRight(StripLeft(Flatten([i \in 1..Len(texts) |-> texts[i].data])))

\* xmltodict push_data: a repeated key collects its values in a list
PushData(pairs, key, val) ==
    IF \E i \in 1..Len(pairs) : pairs[i][1] = key
    THEN LET i == CHOOSE n \in 1..Len(pairs) : pairs[n][1] = key
             old == pairs[i][2]
         IN [pairs EXCEPT ![i][2] =
                IF old.t = "list" THEN List(Append(old.v, val))
                ELSE List(<<old, val>>)]
    ELSE Append(pairs, <<key, val>>)

RECURSIVE XmlValue(_)
RECURSIVE XmlChildren(_, _)
XmlChildren(els, pairs) ==
    IF els = <<>> THEN pairs
    ELSE XmlChildren(Tail(els),
                     PushData(pairs, Head(els).tag, XmlValue(Head(els))))

\* the value xmltodict gives an element: None, its text, or a mapping
XmlValue(el) ==
    LET els == SelectSeq(el.kids, LAMBDA n : n.k = "el")
        data == CData(el)
    IN IF els = <<>> THEN (IF data = <<>> THEN None ELSE Str(data))
       ELSE Dict(XmlChildren(els, <<>>)
                 \o (IF data = <<>> THEN <<>> ELSE << <<"#text", Str(data)>> >>))

\* anymarkup.parse(txt) of XML text the pretty printer wrote
ParseXmlText(txt) ==
    LET root == ParseString(txt).root
    IN Dict(<< <<root.tag, XmlValue(root)>> >>)

\* yaml.dump(raw, default_flow_style=False, width=10000)
YamlIndicators == ForbiddenChars \cup {"'", "#", "&quot;"}
YamlIndent(depth) == Repeat("  ", depth)
YamlScalar(obj) ==
    IF obj.t = "null" THEN <<"null">>
    ELSE IF obj.v = <<>> \/ (\E i \in 1..Len(obj.v) : obj.v[i] \in YamlIndicators)
            \/ Head(obj.v) = " " \/ Last(obj.v) = " "
         THEN <<"'">> \o obj.v \o <<"'">>
    ELSE obj.v
IsYamlLeaf(obj) == obj.t \in {"null", "str"} \/ obj.v = <<>>
YamlLeaf(obj) ==
    IF obj.t \in {"null", "str"} THEN YamlScalar(obj)
    ELSE IF obj.t = "dict" THEN <<"{}">> ELSE <<"[]">>

RECURSIVE YamlBlock(_, _, _)
\* a non-empty mapping or sequence as block lines at `depth`; `inline`: the
\* first line continues a "- " and takes no indentation
YamlBlock(obj, depth, inline) ==
    Flatten([i \in 1..Len(obj.v) |->
        LET lead == IF inline /\ i = 1 THEN <<>> ELSE YamlIndent(depth) IN
        IF obj.t = "dict"
        THEN LET val == obj.v[i][2] IN
             lead \o <<obj.v[i][1], ":">>
             \o (IF IsYamlLeaf(val) THEN <<" ">> \o YamlLeaf(val) \o <<"\n">>
                 ELSE <<"\n">> \o YamlBlock(val,
                          IF val.t = "dict" THEN depth + 1 ELSE depth, FALSE))
        ELSE LET val == obj.v[i] IN
             lead \o <<"-", " ">>
             \o (IF IsYamlLeaf(val) THEN YamlLeaf(val) \o <<"\n">>
                 ELSE YamlBlock(val, depth + 1, TRUE))])

YamlDump(raw) ==
    IF IsYamlLeaf(raw)
    THEN YamlLeaf(raw) \o (IF raw.t \in {"null", "str"}
                           THEN <<"\n", "...", "\n">> ELSE <<"\n">>)
    ELSE YamlBlock(raw, 0, FALSE)

\* convert_to_object_without_none(txt), txt being JSON or XML text
ConvertJson(txt) == YamlDump(remove_none(ParseJsonText(txt)))
ConvertXml(txt) == YamlDump(remove_none(ParseXmlText(txt)))

(***************************************************************************)
(* The serializer's two entry points.                                      *)
(***************************************************************************)
MakeDirsEv(folder) == [ev |-> "makedirs", folder |-> folder]
WriteEv(folder, n, name, path, text) ==
    [ev |-> "write", folder |-> folder, item |-> n, name |-> name,
     path |-> path, text |-> text]
ListEv(c, ok, listing) == [ev |-> "list", cat |-> c, ok |-> ok, items |-> listing]
ExportEv(c, format, options, ok) ==
    [ev |-> "export", cat |-> c, format |-> format, options |-> options, ok |-> ok]

\* the events of "if not os.path.exists(folder): os.makedirs(folder)"
MakeDirsEvents(folder, ds) ==
    IF <<<<folder>>>> \in ds THEN <<>> ELSE <<MakeDirsEv(folder)>>

\* dump_xml(folder, txt, name, save_yaml) called for the n-th item, with the
\* directories ds and files fs: what it leaves behind
DumpXml(folder, txt, name, yaml, n, ds, fs) ==
    LET ds1 == MakeDirs(folder, ds)
        filename == DumpXmlFilename(folder, name, yaml)
        dom == ParseString(ReSubDate(txt))
        pretty == ReplaceQuot(ToPrettyXml(dom.root))
        out == IF ~dom.ok THEN <<>>
               ELSE IF yaml THEN ConvertXml(pretty) ELSE pretty
        err == IF ~dom.ok THEN "ExpatError" ELSE OpenError(filename, ds1, fs)
    IN [dirs |-> ds1,
        files |-> IF err = "none" THEN WriteFile(fs, filename, out) ELSE fs,
        raised |-> err,
        events |-> MakeDirsEvents(folder, ds)
                   \o (IF err = "none"
                       THEN <<WriteEv(folder, n, name, filename, out)>> ELSE <<>>)]

\* the error of "name = item[key]; name = re.sub(..., name)", "none" if none
ItemNameError(item, key) ==
    IF item.t # "dict" THEN "TypeError"
    ELSE IF ~HasKey(item, key) THEN "KeyError"
    ELSE IF GetKey(item, key).t # "str" THEN "TypeError"
    ELSE "none"

RECURSIVE DumpsJsonLoop(_, _, _, _, _, _, _)
\* "for item in data:" from the n-th item on; st = [files, raised, events]
DumpsJsonLoop(folder, data, n, key, yaml, ds, st) ==
    IF n > Len(data) \/ st.raised # "none" THEN st
    ELSE LET item == data[n]
             txt == JsonDumps(item, 0)
             nameErr == ItemNameError(item, key)
             filename == IF nameErr # "none" THEN <<>>
                         ELSE DumpsJsonFilename(folder, GetKey(item, key).v, yaml)
             out == IF yaml THEN ConvertJson(txt) ELSE txt
             err == IF nameErr # "none" THEN nameErr
                    ELSE OpenError(filename, ds, st.files)
         IN DumpsJsonLoop(folder, data, n + 1, key, yaml, ds,
                IF err # "none" THEN [st EXCEPT !.raised = err]
                ELSE [st EXCEPT
                        !.files = WriteFile(st.files, filename, out),
                        !.events = Append(@, WriteEv(folder, n, GetKey(item, key).v,
                                                     filename, out))])

\* dumps_json(folder, data, key, save_yaml): what it leaves behind
DumpsJson(folder, data, key, yaml, ds, fs) ==
    LET ds1 == MakeDirs(folder, ds)
        ordered == order_data(data)
        st == DumpsJsonLoop(folder, ordered.v, 1, key, yaml, ds1,
                  [files |-> fs, raised |-> "none",
                   events |-> MakeDirsEvents(folder, ds)])
    IN [dirs |-> ds1, files |-> st.files, raised |-> st.raised,
        events |-> st.events]

(***************************************************************************)
(* The server and the file system the program runs against.                *)
(***************************************************************************)
Categories == <<"hosts", "templates", "valueMaps", "screens",
                "actions", "mediatypes">>
MarkupCats == {1, 2, 3, 4}        \* exported through configuration.export
\* export(zabbix_.host, 'hosts', 'hostid', 'name') ...
ItemIdField == <<"hostid", "templateid", "valuemapid", "screenid",
                 "actionid", "mediatypeid">>
\* dumps_json(..., key='name') by default, key='description' for mediatypes
NameKey == <<"name", "name", "name", "name", "name", "description">>

\* display names the server may hold
DisplayNames == {<<"Template", " ", "A">>, <<"Template", "/", "A">>,
                 <<".", ".", "/", "x">>}

IdAtom(id) == ToString(id)

\* an item of a markup category's listing
MarkupItem(c, id, name) ==
    Dict(<< <<ItemIdField[c], Str(<<IdAtom(id)>>)>>, <<"name", Str(name)>> >>)

\* an item of a structured category's listing: the server decides the order
\* of the keys and whether the filter is null (variant)
StructuredItem(c, id, name, variant) ==
    IF variant = 1
    THEN Dict(<< <<NameKey[c], Str(name)>>, <<"filter", None>>,
                 <<ItemIdField[c], Str(<<IdAtom(id)>>)>> >>)
    ELSE Dict(<< <<"filter", Dict(<< <<"b", None>>, <<"a", Str(<<"x">>)>> >>)>>,
                 <<NameKey[c], Str(name)>>,
                 <<ItemIdField[c], Str(<<IdAtom(id)>>)>> >>)

\* the listings the server may answer with, given how many items it has
\* listed so far (the ids it assigns are distinct)
Listings(c, done) ==
    UNION { { [i \in 1..n |->
                 IF c \in MarkupCats
                 THEN MarkupItem(c, done + i, names[i])
                 ELSE StructuredItem(c, done + i, names[i], variant[i])] :
              names \in [1..n -> DisplayNames],
              variant \in [1..n -> IF c \in MarkupCats THEN {1} ELSE {1, 2}] }
          : n \in 0..(MaxItems - done) }

\* the document configuration.export returns for one item
ExportDoc(type, id) ==
    <<XmlDecl, "\n", "<zabbix_export>", "<version>", "4.0", "</version>",
      "<date>", "2019-01-01T00:00:00Z", "</date>",
      OpenTag(type), "<item>", "<id>", IdAtom(id), "</id>", "<b/>", "</item>",
      CloseTag(type), "</zabbix_export>">>
\* a truncated answer: not well formed
BrokenDoc(type) == <<XmlDecl, "\n", "<zabbix_export>", OpenTag(type)>>
ExportAnswers(type, id) == {ExportDoc(type, id), BrokenDoc(type)}

\* the run starts in a working directory without category folders
InitialDirs == {<<>>}

(***************************************************************************)
(* get_zabbix_connection.                                                  *)
(***************************************************************************)
\* the statements of the first try block, and what may raise in it
Attempt1Steps == <<"ZabbixAPI(zbx_url)", "session.verify = False",
                   "login(zbx_user, zbx_password)">>
\* the statements of the second try block
Attempt2Steps == <<"ZabbixAPI(zbx_url, user, password)",
                   "session.verify = False">>

AttemptRec(n, steps, failed) ==
    [attempt |-> n, calls |-> steps, raised |-> failed]

\* an except clause that passes silently
LogNothing(l, e) == l
\* logging.exception(e)
LogException(l, e) == Append(l, e)

\* lines 46-53: attempt 1; failed = 0: no statement raised, otherwise the
\* index of the statement that raised
Attempt1 ==
    /\ pc = "connect1"
    /\ \E failed \in 0..Len(Attempt1Steps) :
         /\ attempts' = Append(attempts,
                AttemptRec(1, IF failed = 0 THEN Attempt1Steps
                              ELSE SubSeq(Attempt1Steps, 1, failed), failed # 0))
         /\ IF failed = 0
            THEN /\ handle' = "zbx_pyzabbix"
                 /\ pc' = "main"
                 /\ log' = log
            ELSE /\ handle' = handle
                 /\ pc' = "connect2"
                 /\ log' = LogException(log, [attempt |-> 1,
                                              at |-> Attempt1Steps[failed]])
    /\ UNCHANGED <<raised, save_yaml, cat, items, idx, served, dirs, files,
                   events, call>>

\* lines 56-62: attempt 2
Attempt2 ==
    /\ pc = "connect2"
    /\ \E failed \in 0..Len(Attempt2Steps) :
         /\ attempts' = Append(attempts,
                AttemptRec(2, IF failed = 0 THEN Attempt2Steps
                              ELSE SubSeq(Attempt2Steps, 1, failed), failed # 0))
         /\ IF failed = 0
            THEN /\ handle' = "zbx_py_zabbix"
                 /\ pc' = "main"
                 /\ log' = log
            ELSE /\ handle' = handle
                 /\ pc' = "connect_failed"
                 /\ log' = LogException(log, [attempt |-> 2,
                                              at |-> Attempt2Steps[failed]])
    /\ UNCHANGED <<raised, save_yaml, cat, items, idx, served, dirs, files,
                   events, call>>

\* line 65: raise Exception("Some error in pyzabbix or py_zabbix module, ...")
RaiseFatal ==
    /\ pc = "connect_failed"
    /\ raised' = "Exception"
    /\ pc' = "aborted"
    /\ UNCHANGED <<handle, attempts, log, save_yaml, cat, items, idx, served,
                   dirs, files, events, call>>

(***************************************************************************)
(* main.                                                                   *)
(***************************************************************************)
\* where control goes when category c is finished
PcAfter(c) == IF c = Len(Categories) THEN "done" ELSE "main"

\* an exception that is caught and recorded while the run goes on
AbortAndContinue(e) == /\ raised' = e
                       /\ pc' = pc

\* an uncaught exception: it propagates to the process boundary
Abort(e) == /\ raised' = e
            /\ pc' = "aborted"

\* request options naming every listed item at once
ExportAllOptions(type, listing, c, i) ==
    <<type, [k \in 1..Len(listing) |-> GetKey(listing[k], ItemIdField[c]).v]>>

\* the request options of configuration.export for the item at index i
ExportOptions(type, listing, c, i) ==
    <<type, <<GetKey(listing[i], ItemIdField[c]).v>> >>

\* line 193 in export(): items = zabbix_api.get()
ExportGet ==
    /\ pc = "main"
    /\ cat \in MarkupCats
    /\ \/ /\ events' = Append(events, ListEv(cat, FALSE, <<>>))
          /\ Abort("ZabbixAPIException")
          /\ UNCHANGED <<items, idx, served, cat>>
       \/ \E listing \in Listings(cat, served) :
            /\ events' = Append(events, ListEv(cat, TRUE, listing))
            /\ served' = served + Len(listing)
            /\ raised' = raised
            /\ IF listing = <<>>
               THEN /\ pc' = PcAfter(cat)
                    /\ cat' = cat + 1
                    /\ items' = <<>>
                    /\ idx' = 1
               ELSE /\ pc' = "export_item"
                    /\ cat' = cat
                    /\ items' = listing
                    /\ idx' = 1
    /\ UNCHANGED <<handle, attempts, log, save_yaml, dirs, files, call>>

\* lines 194-197: one iteration of "for item in items"
ExportItem ==
    /\ pc = "export_item"
    /\ LET type == Categories[cat]
           item == items[idx]
           options == ExportOptions(type, items, cat, idx)
           last == idx = Len(items)
       IN \/ /\ events' = Append(events, ExportEv(cat, "xml", options, FALSE))
             /\ Abort("ZabbixAPIException")
             /\ UNCHANGED <<cat, items, idx, dirs, files>>
          \/ \E txt \in ExportAnswers(type, options[2][1]) :
               LET r == DumpXml(type, txt, GetKey(item, "name").v, save_yaml,
                                idx, dirs, files)
               IN /\ events' = Append(events, ExportEv(cat, "xml", options, TRUE))
                                \o r.events
                  /\ dirs' = r.dirs
                  /\ files' = r.files
                  /\ IF r.raised # "none"
                     THEN /\ Abort(r.raised)
                          /\ UNCHANGED <<cat, items, idx>>
                     ELSE /\ raised' = raised
                          /\ pc' = IF last THEN PcAfter(cat) ELSE pc
                          /\ cat' = IF last THEN cat + 1 ELSE cat
                          /\ items' = IF last THEN <<>> ELSE items
                          /\ idx' = IF last THEN 1 ELSE idx + 1
    /\ UNCHANGED <<handle, attempts, log, save_yaml, served, call>>

\* lines 213-214 and 217-218: the listing of a structured category, then
\* dumps_json on it
JsonCategory ==
    /\ pc = "main"
    /\ cat \notin MarkupCats
    /\ \/ /\ events' = Append(events, ListEv(cat, FALSE, <<>>))
          /\ Abort("ZabbixAPIException")
          /\ UNCHANGED <<cat, served, dirs, files>>
       \/ \E listing \in Listings(cat, served) :
            LET r == DumpsJson(Categories[cat], List(listing), NameKey[cat],
                               save_yaml, dirs, files)
            IN /\ events' = Append(events, ListEv(cat, TRUE, listing)) \o r.events
               /\ served' = served + Len(listing)
               /\ dirs' = r.dirs
               /\ files' = r.files
               /\ IF r.raised # "none"
                  THEN /\ Abort(r.raised)
                       /\ cat' = cat
                  ELSE /\ raised' = raised
                       /\ pc' = PcAfter(cat)
                       /\ cat' = IF cat = Len(Categories) THEN cat ELSE cat + 1
    /\ UNCHANGED <<handle, attempts, log, save_yaml, items, idx, call>>

NoCall == [fn |-> "none"]

Init ==
    /\ pc = "connect1"
    /\ handle = "none"
    /\ attempts = <<>>
    /\ log = <<>>
    /\ raised = "none"
    /\ save_yaml \in BOOLEAN
    /\ cat = 1
    /\ items = <<>>
    /\ idx = 1
    /\ served = 0
    /\ dirs = InitialDirs
    /\ files = <<>>
    /\ events = <<>>
    /\ call = NoCall

Next ==
    \/ Attempt1
    \/ Attempt2
    \/ RaiseFatal
    \/ ExportGet
    \/ ExportItem
    \/ JsonCategory

Spec == Init /\ [][Next]_vars

(***************************************************************************)
(* The serializer called directly (as a unit test would), with arguments   *)
(* drawn from bounded sets.                                                *)
(***************************************************************************)
NameAlphabet == {"\\", "/", ":", "\""} \cup {"Host", " ", "."}
HostExample == <<"Host", ":", " ", "\"", "A", "\"">>
\* every name over the alphabet, every forbidden character alone, in a pair
\* and inside a name, and the example
HarnessNames ==
    SeqsUpTo(NameAlphabet, MaxNameLen)
      \cup {<<c>> : c \in ForbiddenChars}
      \cup {<<c, d>> : c, d \in ForbiddenChars}
      \cup {<<"Host", c, "A">> : c \in ForbiddenChars}
      \cup {HostExample}

DocAlphabet == {"<date>", "</date>", "<b>", "</b>", "T", "\n"}
\* two timestamps on one line of a well-formed document
TwoDatesDoc == <<"<b>", "<date>", "T", "</date>", "T", "<date>", "T", "</date>",
                 "</b>">>
HarnessDocs == SeqsUpTo(DocAlphabet, MaxDocLen) \cup {TwoDatesDoc}

HarnessKeys == {"a", "b"}
RECURSIVE JsonVals(_)
RECURSIVE JsonSeqs(_)
RECURSIVE JsonPairs(_, _)
\* the JSON values of exactly n nodes
JsonVals(n) ==
    IF n = 1 THEN {None, Str(<<"x">>), List(<<>>), Dict(<<>>)}
    ELSE {List(s) : s \in JsonSeqs(n - 1)}
         \cup {Dict(q) : q \in JsonPairs(n - 1, HarnessKeys)}
\* the sequences of JSON values of n nodes in total
JsonSeqs(n) ==
    IF n = 0 THEN {<<>>}
    ELSE UNION {{<<v>> \o s : v \in JsonVals(k), s \in JsonSeqs(n - k)} :
                k \in 1..n}
\* the key/value sequences with distinct keys and values of n nodes in total
JsonPairs(n, keys) ==
    IF n = 0 THEN {<<>>}
    ELSE UNION {{<< <<key, v>> >> \o q :
                   v \in JsonVals(kk[1]), q \in JsonPairs(n - kk[1], keys \ {kk[2]}),
                   key \in {kk[2]}} :
                kk \in (1..n) \X keys}

HarnessNameEntry == <<"name", Str(<<"n", "/", "1">>)>>
\* items: a mapping of up to MaxNodes nodes with its name entry first or last
HarnessItems ==
    UNION {{Dict(<<HarnessNameEntry>> \o q), Dict(q \o <<HarnessNameEntry>>)} :
           q \in UNION {JsonPairs(m, HarnessKeys) : m \in 0..(MaxNodes - 1)}}
\* items dumps_json cannot name
UnnamedItems == {None, Dict(<<>>), Dict(<< <<"name", None>> >>)}
HarnessData ==
    {List(<<it>>) : it \in HarnessItems \cup UnnamedItems}
    \cup {List(<<Dict(<< <<"name", Str(<<"m">>)>> >> \o q), it>>) :
            q \in JsonPairs(1, HarnessKeys), it \in UnnamedItems \cup
                {Dict(<<HarnessNameEntry>> \o r) : r \in JsonPairs(1, HarnessKeys)}}

PyKeys == {"a", NoneKey}
PyScalars == {None, Str(<<"x">>), Str(<<"y">>)}
RECURSIVE PyVals(_)
RECURSIVE PySeqs(_)
RECURSIVE PyPairs(_, _)
\* the Python values of exactly n nodes: lists, tuples, sets and mappings
PyVals(n) ==
    IF n = 1 THEN {None, Str(<<"x">>), List(<<>>), Tuple(<<>>), PySet({}), Dict(<<>>)}
    ELSE {List(s) : s \in PySeqs(n - 1)} \cup {Tuple(s) : s \in PySeqs(n - 1)}
         \cup {PySet(e) : e \in {e \in SUBSET PyScalars : Cardinality(e) = n - 1}}
         \cup {Dict(q) : q \in PyPairs(n - 1, PyKeys)}
PySeqs(n) ==
    IF n = 0 THEN {<<>>}
    ELSE UNION {{<<v>> \o s : v \in PyVals(k), s \in PySeqs(n - k)} : k \in 1..n}
PyPairs(n, keys) ==
    IF n = 0 THEN {<<>>}
    ELSE UNION {{<< <<key, v>> >> \o q :
                   v \in PyVals(kk[1]), q \in PyPairs(n - kk[1], keys \ {kk[2]}),
                   key \in {kk[2]}} :
                kk \in (1..n) \X keys}
HarnessObjects == UNION {PyVals(n) : n \in 1..MaxPyNodes}

DumpXmlCall(folder, txt, name, yaml) ==
    [fn |-> "dump_xml", state |-> "pending", folder |-> folder, txt |-> txt,
     name |-> name, save_yaml |-> yaml]
DumpsJsonCall(folder, data, key, yaml) ==
    [fn |-> "dumps_json", state |-> "pending", folder |-> folder, data |-> data,
     key |-> key, save_yaml |-> yaml]
RemoveNoneCall(obj) ==
    [fn |-> "remove_none", state |-> "pending", obj |-> obj, ret |-> None]

HarnessInit ==
    /\ pc = "harness"
    /\ handle = "none"
    /\ attempts = <<>>
    /\ log = <<>>
    /\ raised = "none"
    /\ save_yaml = FALSE
    /\ cat = 1
    /\ items = <<>>
    /\ idx = 1
    /\ served = 0
    /\ dirs = InitialDirs
    /\ files = <<>>
    /\ events = <<>>

\* dump_xml(folder, txt, name, save_yaml)
CallDumpXml ==
    /\ call.fn = "dump_xml"
    /\ call.state = "pending"
    /\ LET r == DumpXml(call.folder, call.txt, call.name, call.save_yaml, 1,
                        dirs, files)
       IN /\ dirs' = r.dirs
          /\ files' = r.files
          /\ raised' = r.raised
          /\ events' = events \o r.events
    /\ call' = [call EXCEPT !.state = "returned"]
    /\ UNCHANGED <<pc, handle, attempts, log, save_yaml, cat, items, idx, served>>

\* dumps_json(folder, data, key, save_yaml)
CallDumpsJson ==
    /\ call.fn = "dumps_json"
    /\ call.state = "pending"
    /\ LET r == DumpsJson(call.folder, call.data, call.key, call.save_yaml,
                          dirs, files)
       IN /\ dirs' = r.dirs
          /\ files' = r.files
          /\ raised' = r.raised
          /\ events' = events \o r.events
    /\ call' = [call EXCEPT !.state = "returned"]
    /\ UNCHANGED <<pc, handle, attempts, log, save_yaml, cat, items, idx, served>>

\* remove_none(obj)
CallRemoveNone ==
    /\ call.fn = "remove_none"
    /\ call.state = "pending"
    /\ call' = [call EXCEPT !.ret = remove_none(call.obj), !.state = "returned"]
    /\ UNCHANGED <<pc, handle, attempts, log, raised, save_yaml, cat, items,
                   idx, served, dirs, files, events>>

SampleDoc == <<"<b>", "<date>", "T", "</date>", "</b>">>

\* both entry points on every display name
InitNames ==
    /\ HarnessInit
    /\ call \in {DumpXmlCall("hosts", SampleDoc, n, y) :
                   n \in HarnessNames, y \in BOOLEAN}
             \cup {DumpsJsonCall("actions",
                       List(<<Dict(<< <<"name", Str(n)>> >>)>>), "name", y) :
                   n \in HarnessNames, y \in BOOLEAN}
NextNames == CallDumpXml \/ CallDumpsJson
SpecNames == InitNames /\ [][NextNames]_vars

\* dump_xml on every document
InitDocs ==
    /\ HarnessInit
    /\ call \in {DumpXmlCall("hosts", d, <<"Host">>, y) :
                   d \in HarnessDocs, y \in BOOLEAN}
NextDocs == CallDumpXml
SpecDocs == InitDocs /\ [][NextDocs]_vars

\* dumps_json on every structured listing, remove_none on every object
InitData ==
    /\ HarnessInit
    /\ call \in {DumpsJsonCall("actions", d, "name", y) :
                   d \in HarnessData, y \in BOOLEAN}
             \cup {RemoveNoneCall(o) : o \in HarnessObjects}
NextData == CallDumpsJson \/ CallRemoveNone
SpecData == InitData /\ [][NextData]_vars

(***************************************************************************)
(* Properties.                                                             *)
(***************************************************************************)
WriteEvents == SelectSeq(events, LAMBDA e : e.ev = "write")
Returned(fn) == call.fn = fn /\ call.state = "returned"

\* the name part of a written path: its last component without ".<ext>"
NamePart(path) == SubSeq(Last(path), 1, Len(Last(path)) - 2)

\* a name with every maximal run of forbidden characters replaced by one
\* space: the characters kept are the ordinary ones and the first of each run
RunHeads(name) ==
    SelectSeq([i \in 1..Len(name) |-> i],
              LAMBDA i : \/ name[i] \notin ForbiddenChars
                         \/ i = 1
                         \/ name[i - 1] \notin ForbiddenChars)
CollapseRuns(name) ==
    [k \in 1..Len(RunHeads(name)) |->
        IF name[RunHeads(name)[k]] \in ForbiddenChars THEN " "
        ELSE name[RunHeads(name)[k]]]

NoForbidden(name) == \A i \in 1..Len(name) : name[i] \notin ForbiddenChars

\* C1 as stated: the name part of every written file has no forbidden
\* character, runs collapse to one space, and Host: "A" gives Host A.
C1_HostExampleAsStated ==
    \A i \in 1..Len(WriteEvents) :
        LET e == WriteEvents[i] IN
        /\ NoForbidden(NamePart(e.path))
        /\ NamePart(e.path) = CollapseRuns(e.name)
        /\ e.name = HostExample => NamePart(e.path) = <<"Host", " ", "A">>

\* C1 amended: the name part of every written file has no forbidden
\* character, every maximal run of forbidden characters is replaced by exactly
\* one space and every other character is kept, so that Host: "A" gives
\* "Host", three spaces, "A", one space (the space between ':' and '"' is an
\* ordinary character that separates two runs).
C1_Sanitized ==
    \A i \in 1..Len(WriteEvents) :
        LET e == WriteEvents[i] IN
        /\ NoForbidden(NamePart(e.path))
        /\ NamePart(e.path) = CollapseRuns(e.name)
        /\ e.name = HostExample =>
               NamePart(e.path) = <<"Host", " ", " ", " ", "A", " ">>

C1_Witness ==
    /\ call.state = "returned"
    /\ \E i \in 1..Len(WriteEvents) :
          /\ WriteEvents[i].name = HostExample
          /\ WriteEvents[i].path \in DOMAIN files

\* C2: attempt 1 (construct, then login) is made first; attempt 2 (credentials
\* to the constructor) only after attempt 1 raised and its exception was
\* logged; the handle is that of the first attempt that did not raise; when
\* both raise, both exceptions are in the log, the one fatal error is raised
\* and there is no handle.
C2_ConnectionOrder ==
    /\ Len(attempts) <= 2
    /\ \A i \in 1..Len(attempts) : attempts[i].attempt = i
    /\ Len(attempts) >= 1 =>
          /\ attempts[1].calls[1] = "ZabbixAPI(zbx_url)"
          /\ ~attempts[1].raised =>
                Last(attempts[1].calls) = "login(zbx_user, zbx_password)"
    /\ Len(attempts) = 2 =>
          /\ attempts[1].raised
          /\ log # <<>> /\ log[1].attempt = 1
          /\ attempts[2].calls[1] = "ZabbixAPI(zbx_url, user, password)"
    /\ handle = (IF attempts # <<>> /\ ~Last(attempts).raised
                 THEN (IF Len(attempts) = 1 THEN "zbx_pyzabbix" ELSE "zbx_py_zabbix")
                 ELSE "none")
    /\ Len(log) = Cardinality({i \in 1..Len(attempts) : attempts[i].raised})
    /\ raised = "Exception" =>
          /\ Len(attempts) = 2
          /\ attempts[1].raised /\ attempts[2].raised
          /\ [i \in 1..Len(log) |-> log[i].attempt] = <<1, 2>>
          /\ handle = "none"
          /\ events = <<>>
    /\ (Len(attempts) = 2 /\ attempts[2].raised) =>
          pc \in {"connect_failed", "aborted"}
    /\ pc = "aborted" /\ handle = "none" => raised = "Exception"
    /\ pc \in {"main", "export_item", "done"} => handle # "none"

C2_Witness ==
    /\ raised = "Exception"
    /\ Len(log) = 2
    /\ handle = "none"

\* the files the write events leave behind, replayed in order
RECURSIVE Replay(_, _)
Replay(evs, fs) ==
    IF evs = <<>> THEN fs
    ELSE Replay(Tail(evs),
                IF Head(evs).ev = "write"
                THEN [p \in DOMAIN fs \cup {Head(evs).path} |->
                         IF p = Head(evs).path THEN Head(evs).text ELSE fs[p]]
                ELSE fs)

IsRequest(e) == e.ev \in {"list", "export"}

\* C3: a failed listing fetch or export request is the last thing the run
\* does: nothing (no retry, no other request, no makedirs, no write) follows
\* it in the history, the run is aborted with the request's error, and the
\* files are exactly what the writes before the failure left.
C3_AbortOnFailure ==
    /\ \A i \in 1..Len(events) :
          (IsRequest(events[i]) /\ ~events[i].ok) =>
              /\ i = Len(events)
              /\ pc = "aborted"
              /\ raised = "ZabbixAPIException"
    /\ files = Replay(events, <<>>)
    /\ raised # "none" => pc = "aborted"

C3_Witness ==
    /\ pc = "aborted"
    /\ events # <<>> /\ Last(events).ev = "export" /\ ~Last(events).ok
    /\ files # <<>>
    /\ idx = 2
    /\ cat < Len(Categories)

\* the index in events of the listing request that event i belongs to
ListingBefore(i) ==
    CHOOSE l \in 1..i : /\ events[l].ev = "list"
                        /\ \A m \in (l + 1)..i : events[m].ev # "list"
HasListingBefore(i) == \E l \in 1..i : events[l].ev = "list"

SameFile(e1, e2) ==
    /\ e1.folder = e2.folder
    /\ CollapseRuns(e1.name) = CollapseRuns(e2.name)

\* C4: when two items of one category have names that sanitize to the same
\* name, both are written to the same path, no file-exists error stops the
\* run, the folder holds exactly one file of that name, and once both are
\* written the file holds the text of the later one, not the earlier one's.
C4_CollisionOverwrites ==
    /\ raised # "FileExistsError"
    /\ \A i, j \in 1..Len(events) :
          (/\ i < j
           /\ events[i].ev = "write" /\ events[j].ev = "write"
           /\ SameFile(events[i], events[j])) =>
              /\ events[i].path = events[j].path
              /\ events[j].path \in DOMAIN files
              /\ Cardinality({p \in DOMAIN files :
                    /\ p[1] = <<events[j].folder>>
                    /\ NamePart(p) = CollapseRuns(events[j].name)}) = 1
              /\ (\A m \in (j + 1)..Len(events) :
                     events[m].ev = "write" => ~SameFile(events[m], events[j]))
                 => /\ files[events[j].path] = events[j].text
                    /\ files[events[j].path] # events[i].text

C4_Witness ==
    \E i, j \in 1..Len(events) :
        /\ i < j
        /\ events[i].ev = "write" /\ events[j].ev = "write"
        /\ events[i].name = <<"Template", " ", "A">>
        /\ events[j].name = <<"Template", "/", "A">>
        /\ events[i].path = events[j].path
        /\ files[events[j].path] = events[j].text
        /\ raised = "none"

CategoryDir(c) == <<<<Categories[c]>>>>
\* the items the server listed for category c in this run
Listed(c) ==
    LET l == CHOOSE l \in 1..Len(events) :
                 events[l].ev = "list" /\ events[l].cat = c
    IN events[l].items

\* C6 as stated: after a run that completes, all six category directories
\* exist, whatever the number of items listed.
C6_AllSixDirectories ==
    pc = "done" => \A c \in 1..Len(Categories) : CategoryDir(c) \in dirs

\* C6 amended: after a run that completes, the directory of each structured
\* category (actions, mediatypes) exists whatever the number of items listed,
\* and the directory of a markup category (hosts, templates, valueMaps,
\* screens) exists if the server listed at least one item in it; for a markup
\* category with no item the run creates no directory.
C6_Directories ==
    pc = "done" =>
        \A c \in 1..Len(Categories) :
            /\ c \notin MarkupCats => CategoryDir(c) \in dirs
            /\ (c \in MarkupCats /\ Listed(c) # <<>>) => CategoryDir(c) \in dirs
            /\ (c \in MarkupCats /\ Listed(c) = <<>>) =>
                  /\ CategoryDir(c) \notin dirs
                  /\ \A i \in 1..Len(events) :
                        events[i].ev = "makedirs" =>
                            events[i].folder # Categories[c]

C6_Witness ==
    /\ pc = "done"
    /\ Listed(1) = <<>> /\ CategoryDir(1) \notin dirs
    /\ Listed(2) # <<>> /\ CategoryDir(2) \in dirs
    /\ Listed(5) = <<>> /\ CategoryDir(5) \in dirs

\* the extension a category's files get
ExpectedExt(c) ==
    IF save_yaml THEN "yaml" ELSE IF c \in MarkupCats THEN "xml" ELSE "json"

\* C7: every write goes to <folder>/<sanitized name>.<ext>, the folder being
\* that of the category whose listing is being serialized and ext being yaml
\* with save_yaml and otherwise xml (markup) or json (structured); every file
\* that exists is directly inside one of the six category folders.
C7_WritePaths ==
    /\ \A i \in 1..Len(events) :
          events[i].ev = "write" =>
              /\ HasListingBefore(i)
              /\ LET c == events[ListingBefore(i)].cat IN
                 /\ events[i].folder = Categories[c]
                 /\ events[i].path =
                       << <<Categories[c]>>,
                          CollapseRuns(events[i].name) \o <<".", ExpectedExt(c)>> >>
    /\ \A p \in DOMAIN files :
          /\ Len(p) = 2
          /\ \E c \in 1..Len(Categories) : p[1] = <<Categories[c]>>

C7_Witness ==
    /\ save_yaml
    /\ \E i, j \in 1..Len(events) :
          /\ events[i].ev = "write" /\ events[j].ev = "write"
          /\ events[i].name = <<".", ".", "/", "x">>
          /\ events[i].folder = "hosts"
          /\ events[j].folder = "mediatypes"
          /\ events[i].path \in DOMAIN files

ExportsBetween(l, i) ==
    Cardinality({m \in (l + 1)..i : events[m].ev = "export"})
WritesBetween(l, i) ==
    Cardinality({m \in (l + 1)..i : events[m].ev = "write"})
ListIndexes == SelectSeq([i \in 1..Len(events) |-> i],
                         LAMBDA i : events[i].ev = "list")

\* C10: the listings are fetched in the order of Categories, once each; in a
\* markup category the n-th export request names that category and only the
\* id of the n-th listed item, and comes right after the listing (n = 1) or
\* right after the write of item n-1; each write of a markup item comes right
\* after that item's export request (and the makedirs, if any); a listing is
\* only fetched when every item of the previous one has been written.
C10_LinearOrder ==
    /\ \A k \in 1..Len(ListIndexes) : events[ListIndexes[k]].cat = k
    /\ \A i \in 1..Len(events) :
          /\ events[i].ev = "export" =>
                /\ HasListingBefore(i)
                /\ LET l == ListingBefore(i)
                       c == events[l].cat
                       n == ExportsBetween(l, i)
                   IN /\ c \in MarkupCats /\ events[i].cat = c
                      /\ n <= Len(events[l].items)
                      /\ events[i].format = "xml"
                      /\ events[i].options =
                            <<Categories[c],
                              <<GetKey(events[l].items[n], ItemIdField[c]).v>> >>
                      /\ IF n = 1 THEN i - 1 = l
                         ELSE /\ events[i - 1].ev = "write"
                              /\ events[i - 1].item = n - 1
          /\ (events[i].ev = "write" /\ events[i].folder \in
                  {Categories[c] : c \in MarkupCats}) =>
                LET r == IF events[i - 1].ev = "makedirs" THEN i - 2 ELSE i - 1
                IN /\ r >= 1
                   /\ events[r].ev = "export" /\ events[r].ok
                   /\ events[i].item = ExportsBetween(ListingBefore(i), i)
          /\ (events[i].ev = "list" /\ i > 1) =>
                LET l == ListingBefore(i - 1) IN
                /\ events[l].ok
                /\ WritesBetween(l, i) = Len(events[l].items)
    /\ pc = "done" => Len(ListIndexes) = Len(Categories)

C10_Witness ==
    /\ pc = "done"
    /\ Len(Listed(2)) = 2
    /\ Cardinality({i \in 1..Len(events) : events[i].ev = "export"}) = 2

\* a markup document without its <date> elements (depth: the number of
\* <date> elements open at atom i)
RECURSIVE DropDateElements(_, _, _)
DropDateElements(txt, i, depth) ==
    IF i > Len(txt) THEN <<>>
    ELSE IF txt[i] = "<date>" THEN DropDateElements(txt, i + 1, depth + 1)
    ELSE IF txt[i] = "</date>" /\ depth > 0
         THEN DropDateElements(txt, i + 1, depth - 1)
    ELSE IF depth > 0 THEN DropDateElements(txt, i + 1, depth)
    ELSE <<txt[i]>> \o DropDateElements(txt, i + 1, 0)

\* C5 as stated: for a well-formed document with a <date> element, whatever
\* its content and however many there are, the stripping step removes the
\* <date> elements and nothing else, and the text written has no <date>
\* element (no date tag, and no date key in the YAML rendering).
C5_DateStripped ==
    (/\ Returned("dump_xml")
     /\ ParseString(call.txt).ok
     /\ Occurs("<date>", call.txt)) =>
        /\ ReSubDate(call.txt) = DropDateElements(call.txt, 1, 0)
        /\ \A i \in 1..Len(WriteEvents) :
              /\ ~Occurs("<date>", WriteEvents[i].text)
              /\ ~Occurs("<date/>", WriteEvents[i].text)
              /\ ~Occurs("date", WriteEvents[i].text)

\* the permutations of a sequence
Perms(q) ==
    {[i \in 1..Len(q) |-> q[f[i]]] :
       f \in {g \in [1..Len(q) -> 1..Len(q)] :
                \A a, b \in 1..Len(q) : a # b => g[a] # g[b]}}
\* the sequences whose i-th element is drawn from the i-th set
Choices(sets) ==
    {q \in [1..Len(sets) -> UNION {sets[i] : i \in 1..Len(sets)}] :
       \A i \in 1..Len(sets) : q[i] \in sets[i]}

RECURSIVE Reorderings(_)
\* the values equal to v as nested mappings and sequences: any insertion order
\* of the keys of any mapping, the order of every sequence kept
Reorderings(v) ==
    IF v.t = "dict"
    THEN {Dict(q) : q \in UNION {Perms(c) :
              c \in Choices([i \in 1..Len(v.v) |->
                       {<<v.v[i][1], r>> : r \in Reorderings(v.v[i][2])}])}}
    ELSE IF v.t = "list"
    THEN {List(c) : c \in Choices([i \in 1..Len(v.v) |-> Reorderings(v.v[i])])}
    ELSE {v}

RECURSIVE DeepSorted(_)
\* every mapping, at every depth, has its keys in ascending order
DeepSorted(v) ==
    IF v.t = "dict"
    THEN /\ \A i \in 1..(Len(v.v) - 1) : KeyRank(v.v[i][1]) < KeyRank(v.v[i + 1][1])
         /\ \A i \in 1..Len(v.v) : DeepSorted(v.v[i][2])
    ELSE IF v.t = "list" THEN \A i \in 1..Len(v.v) : DeepSorted(v.v[i])
    ELSE TRUE

RECURSIVE AsMapping(_)
\* a value with the insertion order of its mappings forgotten
AsMapping(v) ==
    IF v.t = "dict"
    THEN [t |-> "dict",
          v |-> {<<v.v[i][1], AsMapping(v.v[i][2])>> : i \in 1..Len(v.v)}]
    ELSE IF v.t = "list"
    THEN [t |-> "list", v |-> [i \in 1..Len(v.v) |-> AsMapping(v.v[i])]]
    ELSE v

\* C8: dumps_json leaves the same files with the same text (and the same
\* error, if any) for every input that differs from the one given only in the
\* insertion order of mapping keys, at any depth; order_data's result has the
\* keys of every mapping sorted at every depth and is otherwise the input,
\* with every sequence in its order.
C8_Deterministic ==
    Returned("dumps_json") =>
        /\ \A d2 \in Reorderings(call.data) :
              LET r == DumpsJson(call.folder, d2, call.key, call.save_yaml,
                                 InitialDirs, <<>>)
              IN r.files = files /\ r.raised = raised
        /\ DeepSorted(order_data(call.data))
        /\ AsMapping(order_data(call.data)) = AsMapping(call.data)

C8_Witness ==
    /\ Returned("dumps_json")
    /\ raised = "none"
    /\ files # <<>>
    /\ ~DeepSorted(OrderDataTopOnly(call.data))
    /\ Cardinality(Reorderings(call.data)) > 2

\* atoms of JSON and YAML text that are layout, not keys or values
LayoutAtoms == {"{", "}", "[", "]", ",", ": ", ":", " ", "-", "\n", "    ",
                "  ", "\"", "'", "..."}
ContentAtoms(txt) == SelectSeq(txt, LAMBDA a : a \notin LayoutAtoms)

RECURSIVE ContentOf(_, _)
\* the keys and scalars of a value in order, an empty container as "{}" or
\* "[]"; with `strip`, the null elements and the entries with a null value
\* are left out
ContentOf(v, strip) ==
    IF v.t = "null" THEN <<"null">>
    ELSE IF v.t = "str" THEN v.v
    ELSE LET kept == IF ~strip THEN v.v
                     ELSE IF v.t = "dict"
                          THEN SelectSeq(v.v, LAMBDA kv : kv[2].t # "null")
                          ELSE SelectSeq(v.v, LAMBDA x : x.t # "null")
         IN IF kept = <<>> THEN (IF v.t = "dict" THEN <<"{}">> ELSE <<"[]">>)
            ELSE Flatten([i \in 1..Len(kept) |->
                    IF v.t = "dict"
                    THEN <<kept[i][1]>> \o ContentOf(kept[i][2], strip)
                    ELSE ContentOf(kept[i], strip)])

RECURSIVE Stripped(_, _)
\* b is a without its null elements and null-valued entries, at every depth
Stripped(a, b) ==
    /\ a.t = b.t
    /\ IF a.t \in {"list", "tuple"}
       THEN LET kept == SelectSeq(a.v, LAMBDA x : x.t # "null")
            IN /\ Len(b.v) = Len(kept)
               /\ \A i \in 1..Len(kept) : Stripped(kept[i], b.v[i])
       ELSE IF a.t = "set" THEN b.v = a.v \ {None}
       ELSE IF a.t = "dict"
       THEN LET kept == SelectSeq(a.v,
                           LAMBDA kv : kv[2].t # "null" /\ kv[1] # NoneKey)
            IN /\ Len(b.v) = Len(kept)
               /\ \A i \in 1..Len(kept) :
                     /\ b.v[i][1] = kept[i][1]
                     /\ Stripped(kept[i][2], b.v[i][2])
       ELSE a = b

=============================================================================
